---- MODULE Spec2Model ----
(***************************************************************************)
(* Live-update transport of the bus tracker: the BusTrackingWebSocket      *)
(* class (services/api) driven by its caller and by the browser's socket   *)
(* and timer events, together with the vehicle and stop collections its    *)
(* callbacks overwrite in the Map component.                               *)
(***************************************************************************)
EXTENDS Integers, Sequences, FiniteSets, TLC

\* ---------------------------------------------------------------- bounds
\* sockets one transport instance may create in a run
MaxSockets == 7
\* sockets created in a run in which the server also delivers frames
MaxLiveSockets == 3
\* connect() calls made by the caller (the others come from the timers)
MaxCallerConnects == 2
\* vehicle and stop identities that occur in update batches
MaxVehicleId == 2
MaxStopId == 1
\* getLiveBuses calls of poll ticks that may be unsettled at once
MaxInflight == 2
\* sockets and requests followed from their start to their settlement
MaxPending == 2
\* zoom presses in each direction of a round-trip run
MaxZoomSteps == 10

\* ------------------------------------------------- program constants
maxReconnectAttempts == 5
reconnectDelay == 1000

\* the four values of WebSocket.readyState
ReadyStates == {"CONNECTING", "OPEN", "CLOSING", "CLOSED"}

\* batches are full snapshots: arrays of entity ids
VehicleBatches == {<<>>, <<1>>} \cup {<<MaxVehicleId, 1>>}
StopBatches == {<<>>} \cup {<<MaxStopId>>}

\* text frames the server may deliver: unparseable text, the JSON text
\* "null", and JSON objects carrying a type tag
Payloads ==
    {[json |-> "bad", type |-> "", data |-> <<>>, message |-> ""],
     [json |-> "null", type |-> "", data |-> <<>>, message |-> ""],
     [json |-> "obj", type |-> "error", data |-> <<>>, message |-> "server error"],
     [json |-> "obj", type |-> "ping", data |-> <<>>, message |-> ""]}
    \cup {[json |-> "obj", type |-> "bus_update", data |-> b, message |-> ""] :
             b \in VehicleBatches}
    \cup {[json |-> "obj", type |-> "stop_update", data |-> b, message |-> ""] :
             b \in StopBatches}

VARIABLES
    ws,                 \* this.ws: 0 for null, else the index of a socket
    reconnectAttempts,  \* this.reconnectAttempts
    sockets,            \* readyState of every socket created, in creation order
    sent,               \* frames transmitted on the connection of each socket
    timers,             \* delays of the pending setTimeout calls, in scheduling order
    buses,              \* Map state written by the onBusUpdate callback
    stops,              \* Map state written by the onStopUpdate callback
    aborted,            \* closing sockets on which close() was called before they opened
    fired,              \* callbacks invoked by the most recent handler
    errorsEmitted,      \* onError calls by the transport itself since a socket last opened
    last,               \* the most recent event
    inbound,            \* the frame most recently delivered
    disconnected,       \* the caller's last call was disconnect()
    callerConnects,     \* connect() calls made by the caller
    schedLog            \* delays scheduled since a socket last opened

\* state of the Map component that owns a transport and the polling interval
VARIABLES
    mounted,            \* the Map view is mounted
    mapCenter,          \* mapCenter state
    zoomLevel,          \* zoomLevel state
    mapDimensions,      \* mapDimensions state
    userLocation,       \* userLocation state, NoLocation for null
    locationLoading,    \* locationLoading state
    dataLoading,        \* dataLoading state
    geoPending,         \* a getCurrentPosition request awaits its callback
    initialPending,     \* the promise of loadInitialData is not settled
    intervals,          \* active setInterval timers, each with its captured center
    inflight,           \* bounds of the getLiveBuses calls of poll ticks not yet settled
    toasts,             \* toasts shown by the most recent handler
    mapLast,            \* the most recent Map event
    geoError,           \* error code handed to the error callback by the last step, else NoCode
    lastBatch,          \* the vehicle batch most recently handed to setBuses
    trail               \* zoom presses counted by the round-trip runs

\* the page's storage and configuration, and the requests of the API client
VARIABLES
    wsUrl,              \* URL handed to new WebSocket by the latest connect() that got a socket
    token,              \* localStorage 'busTracker_token': <<>> for none, else <<token>>
    apiConfig,          \* the exported apiConfig object
    defaultConfig,      \* the DEFAULT_CONFIG object
    aliased,            \* apiConfig and DEFAULT_CONFIG are the same object
    windowConfig,       \* window.__BUS_TRACKER_CONFIG__: <<>> for none, else <<config>>
    storedConfig,       \* localStorage 'busTracker_config': <<>> for none, else <<text>>
    cfgLast,            \* the most recent configuration event
    requests            \* phase of every makeAuthenticatedRequest call, in call order

\* the transport's fields and the history kept about it
tvars == <<ws, reconnectAttempts, sockets, sent, timers, aborted, fired,
           errorsEmitted, last, inbound, disconnected, callerConnects, schedLog,
           wsUrl>>

envVars == <<token, apiConfig, defaultConfig, aliased, windowConfig, storedConfig,
             cfgLast, requests>>

mapVars == <<mounted, mapCenter, zoomLevel, mapDimensions, userLocation,
             locationLoading, dataLoading, geoPending, initialPending, intervals,
             inflight, toasts, mapLast, geoError, lastBatch, trail>>

vars == <<tvars, buses, stops, mapVars, envVars>>

NoFrame == [json |-> "none", type |-> "", data |-> <<>>, message |-> ""]

Call(cb, err) == [cb |-> cb, err |-> err]

\* ------------------------------------------- configuration and URL

\* DEFAULT_CONFIG as written in the source
DEFAULT_CONFIG ==
    [baseURL |-> "http://localhost:3001/api", wsURL |-> "ws://localhost:3001/ws",
     timeout |-> 10000, enableMockMode |-> TRUE]

\* { ...base, ...partial } and Object.assign(base, partial)
Spread(base, partial) ==
    [k \in DOMAIN base \cup DOMAIN partial |->
        IF k \in DOMAIN partial THEN partial[k] ELSE base[k]]

\* JSON.stringify of a configuration object: the text, as the set of its
\* name/value members (strings, a number and a boolean are written exactly)
JSONStringify(obj) == [members |-> {<<k, obj[k]>> : k \in DOMAIN obj}]

\* JSON.parse of a stored configuration text
JSONParse(text) ==
    [k \in {m[1] : m \in text.members} |->
        (CHOOSE m \in text.members : m[1] = k)[2]]

\* getConfig(): window override first, then localStorage, then DEFAULT_CONFIG
getConfig(win, stored) ==
    IF win # <<>> THEN Spread(DEFAULT_CONFIG, win[1])
    ELSE IF stored # <<>> THEN Spread(DEFAULT_CONFIG, JSONParse(stored[1]))
    ELSE DEFAULT_CONFIG

\* getConfig() returns the DEFAULT_CONFIG object itself, not a copy
getConfigAliased(win, stored) == win = <<>> /\ stored = <<>>

\* partial configurations handed to updateAPIConfig by the debug helpers
ConfigUpdates ==
    {[enableMockMode |-> FALSE], [enableMockMode |-> TRUE],
     [baseURL |-> "https://api.example.org/v1"], [wsURL |-> "wss://api.example.org/ws"]}

\* values of window.__BUS_TRACKER_CONFIG__ a page may be served with
WindowConfigs == {<<>>, <<[wsURL |-> "wss://edge.example.org/ws"]>>}

\* tokens the sign-in and sign-up forms store
Tokens == {"mock-jwt-token-1", "mock-jwt-token-2"}

\* getAuthToken(): localStorage.getItem('busTracker_token')
getAuthToken == token

\* no socket has been created
NoUrl == [base |-> "", query |-> <<>>]

\* `${value}` of a template literal for a string or null
TemplateString(opt) == IF opt = <<>> THEN "null" ELSE opt[1]

\* `${wsUrl}?token=${token}`: the base and the query parameters it carries
BuildUrl(base, tok) ==
    [base |-> base, query |-> <<[name |-> "token", value |-> TemplateString(tok)]>>]

\* --------------------------------------------------------- pure helpers

\* JSON.parse followed by the read of message.type: "throw" when either
\* raises (unparseable text; null has no properties), else the type tag
ParseType(p) ==
    IF p.json = "obj" THEN p.type ELSE "throw"

\* handleMessage with the break after the first case missing
handleMessageFallthrough(p) ==
    CASE p.type = "bus_update" -> <<Call("onBusUpdate", ""), Call("onStopUpdate", "")>>
      [] p.type = "stop_update" -> <<Call("onStopUpdate", "")>>
      [] p.type = "error" -> <<Call("onError", p.message)>>
      [] OTHER -> <<>>

\* handleMessage: the callbacks the switch invokes for a type tag
handleMessage(p) ==
    CASE p.type = "bus_update" -> <<Call("onBusUpdate", "")>>
      [] p.type = "stop_update" -> <<Call("onStopUpdate", "")>>
      [] p.type = "error" -> <<Call("onError", p.message)>>
      [] OTHER -> <<>>

\* the onmessage handler reporting a parse failure to the caller
OnMessageReporting(p) ==
    IF ParseType(p) = "throw"
    THEN <<Call("onError", "Failed to parse WebSocket message")>>
    ELSE handleMessage(p)

\* the onmessage handler: parse inside try/catch, then dispatch
OnMessage(p) ==
    IF ParseType(p) = "throw" THEN <<>> ELSE handleMessage(p)

\* send without the readyState test
sendUnchecked(w, socks, out) ==
    IF w # 0
    THEN [out EXCEPT ![w] = @ + 1]
    ELSE out

\* send: transmit on this.ws only when it exists and is OPEN
send(w, socks, out) ==
    IF w # 0 /\ socks[w] = "OPEN"
    THEN [out EXCEPT ![w] = @ + 1]
    ELSE out

\* guard of reconnect() with no limit
CanReconnectUnbounded(attempts) == attempts >= 0

\* guard of reconnect() with the limit off by one
CanReconnectInclusive(attempts) == attempts <= maxReconnectAttempts

\* guard of reconnect()
CanReconnect(attempts) == attempts < maxReconnectAttempts

\* delay that ignores the attempt number
BackoffDelayFlat(attempts) == reconnectDelay + 0 * attempts

\* delay handed to setTimeout by reconnect(), for the incremented counter
BackoffDelay(attempts) == reconnectDelay * attempts

\* a timer fires before any later-scheduled timer of equal or longer delay
CanFire(i) ==
    /\ i \in 1..Len(timers)
    /\ \A j \in 1..(i - 1) : timers[j] > timers[i]

RemoveAt(s, i) == SubSeq(s, 1, i - 1) \o SubSeq(s, i + 1, Len(s))

\* ------------------------------------------------- the Map's viewport
\* latitudes and longitudes are integers in units of 0.0001 degree; pixel
\* coordinates are exact fractions n/d with d > 0

\* BOUNDS
minLat == 407000
maxLat == 408000
minLng == -740200
maxLng == -739400

\* initial mapCenter, fallback location and origin of getMarkerPosition
DefaultCenter == [lat |-> 407128, lng |-> -740060]

\* limits of handleZoomIn / handleZoomOut, initial zoom, zoom of factor 1
MinZoom == 8
MaxZoom == 18
InitialZoom == 13
ReferenceZoom == 10

\* period of the polling interval (ms) and margin of its bounds (0.05 degree)
PollPeriod == 10000
PollMargin == 500

\* userLocation when null
NoLocation == [lat |-> 0, lng |-> 0]

\* positions a geolocation fix may report: inside BOUNDS, and far north of it
Locations == {[lat |-> 407580, lng |-> -739855], [lat |-> 415000, lng |-> -739855]}

\* sizes the map element may be measured at
Dimensions == {[width |-> 800, height |-> 600], [width |-> 400, height |-> 300],
               [width |-> 0, height |-> 0]}

\* GeolocationPositionError codes; 0 stands for any other code
GeoCodes == {1, 2, 3, 0}

\* no geolocation error was reported by the last step
NoCode == -1

\* position of each vehicle and stop snapshot that occurs in a batch
VehiclePos(v) ==
    CASE v = 1 -> [lat |-> 407128, lng |-> -740060]
      [] v = 2 -> [lat |-> 407589, lng |-> -739851]
      [] v = 3 -> [lat |-> 407505, lng |-> -739934]
      [] OTHER -> [lat |-> 415000, lng |-> -739855]

StopPos(v) ==
    CASE v = 1 -> [lat |-> 407580, lng |-> -739855]
      [] OTHER -> [lat |-> 407829, lng |-> -739654]

\* batches a fetch may return: those of the frames, and two fleets of three
\* that share two vehicles
FleetBatches == VehicleBatches \cup {<<1, 2, 3>>, <<2, 3, 4>>}

Rat(n, d) == [n |-> n, d |-> d]

\* Math.pow(2, zoomLevel - 10) as the fraction ZoomNum / ZoomDen
ZoomNum(z) == IF z >= ReferenceZoom THEN 2 ^ (z - ReferenceZoom) ELSE 1
ZoomDen(z) == IF z >= ReferenceZoom THEN 1 ELSE 2 ^ (ReferenceZoom - z)

\* a projection whose x axis runs from east to west
latLngToPixelMirrored(lat, lng, mapWidth, mapHeight) ==
    [x |-> Rat((maxLng * lng.d - lng.n) * mapWidth, lng.d * (maxLng - minLng)),
     y |-> Rat((maxLat * lat.d - lat.n) * mapHeight, lat.d * (maxLat - minLat))]

\* latLngToPixel for fractional coordinates
latLngToPixel(lat, lng, mapWidth, mapHeight) ==
    [x |-> Rat((lng.n - minLng * lng.d) * mapWidth, lng.d * (maxLng - minLng)),
     y |-> Rat((maxLat * lat.d - lat.n) * mapHeight, lat.d * (maxLat - minLat))]

\* getMarkerPosition for a zoom level, center and surface size
markerPosition(lat, lng, zoom, center, dims) ==
    latLngToPixel(
        Rat(lat * ZoomNum(zoom) - (center.lat - DefaultCenter.lat) * ZoomDen(zoom),
            ZoomNum(zoom)),
        Rat(lng * ZoomNum(zoom) - (center.lng - DefaultCenter.lng) * ZoomDen(zoom),
            ZoomNum(zoom)),
        dims.width, dims.height)

\* getMarkerPosition in the current render
getMarkerPosition(lat, lng) ==
    markerPosition(lat, lng, zoomLevel, mapCenter, mapDimensions)

\* the test that makes a marker render as null
OffSurface(pos, dims) ==
    \/ pos.x.n < 0
    \/ pos.x.n > dims.width * pos.x.d
    \/ pos.y.n < 0
    \/ pos.y.n > dims.height * pos.y.d

Min(a, b) == IF a < b THEN a ELSE b
Max(a, b) == IF a > b THEN a ELSE b

\* a zoom-in step without the upper clamp
ZoomInUnclamped(z) == z + 1

\* the updater of handleZoomIn
ZoomIn(z) == Min(z + 1, MaxZoom)

\* a zoom-out step of two levels
ZoomOutCoarse(z) == Max(z - 2, MinZoom)

\* the updater of handleZoomOut
ZoomOut(z) == Max(z - 1, MinZoom)

\* a cleanup that leaves the interval running
clearNothing(ivs) == ivs

\* clearInterval(updateInterval): the interval of the effect being cleaned up,
\* the one created last, is removed
clearInterval(ivs) == SubSeq(ivs, 1, Len(ivs) - 1)

\* bounds handed to getLiveBuses by a poll tick
PollBounds(center) ==
    [north |-> center.lat + PollMargin, south |-> center.lat - PollMargin,
     east |-> center.lng + PollMargin, west |-> center.lng - PollMargin]

\* an interval whose callback keeps the center of the first render
NewIntervalAtMount(center) == [center |-> DefaultCenter, every |-> PollPeriod]

\* setInterval(callback, 10000) of the effect run with mapCenter = center: the
\* callback reads the mapCenter of that render
NewInterval(center) == [center |-> center, every |-> PollPeriod]

\* a merge that keeps the vehicles the batch does not mention
mergeVehiclesUpsert(old, batch) ==
    batch \o SelectSeq(old, LAMBDA v : \A k \in 1..Len(batch) : batch[k] # v)

\* setBuses(batch): the state becomes the batch
mergeVehicles(old, batch) == batch

\* a switch whose cases all fall through to the default
GeoErrorMessageFallthrough(code) ==
    "An unknown error occurred while retrieving location"

\* the switch over error.code in the geolocation error callback
GeoErrorMessage(code) ==
    CASE code = 1 -> "Location access denied by user"
      [] code = 2 -> "Location information unavailable"
      [] code = 3 -> "Location request timed out"
      [] OTHER -> "An unknown error occurred while retrieving location"

NoTrail == [phase |-> "roam", start |-> InitialZoom, ins |-> 0, outs |-> 0]

\* -------------------------------------------------------------- actions

\* fields of a BusTrackingWebSocket right after construction
TransportInit ==
    /\ ws = 0
    /\ reconnectAttempts = 0
    /\ sockets = <<>>
    /\ sent = <<>>
    /\ timers = <<>>
    /\ aborted = {}
    /\ fired = <<>>
    /\ errorsEmitted = 0
    /\ last = "init"
    /\ inbound = NoFrame
    /\ disconnected = FALSE
    /\ callerConnects = 0
    /\ schedLog = <<>>
    /\ wsUrl = NoUrl

\* the Map after its first render and effects: polling started, initial load
\* requested
MapInit ==
    /\ mounted = TRUE
    /\ mapCenter = DefaultCenter
    /\ zoomLevel = InitialZoom
    /\ mapDimensions = [width |-> 800, height |-> 600]
    /\ userLocation = NoLocation
    /\ locationLoading = FALSE
    /\ dataLoading = TRUE
    /\ geoPending = FALSE
    /\ initialPending = TRUE
    /\ intervals = <<NewInterval(DefaultCenter)>>
    /\ inflight = <<>>
    /\ toasts = <<>>
    /\ mapLast = "mount"
    /\ geoError = NoCode
    /\ lastBatch = <<>>
    /\ trail = NoTrail

\* first visit of the page: nothing stored, no window override, apiConfig is
\* the DEFAULT_CONFIG object returned by getConfig
EnvInit ==
    /\ token = <<>>
    /\ windowConfig = <<>>
    /\ storedConfig = <<>>
    /\ defaultConfig = DEFAULT_CONFIG
    /\ apiConfig = getConfig(windowConfig, storedConfig)
    /\ aliased = getConfigAliased(windowConfig, storedConfig)
    /\ cfgLast = "load"
    /\ requests = <<>>

Init ==
    /\ TransportInit
    /\ buses = <<>>
    /\ stops = <<>>
    /\ MapInit
    /\ EnvInit

\* body of connect(): new WebSocket(url) either throws (invalid URL) or
\* yields a CONNECTING socket that replaces this.ws
connect(urlValid) ==
    IF urlValid
    THEN /\ sockets' = Append(sockets, "CONNECTING")
         /\ sent' = Append(sent, 0)
         /\ ws' = Len(sockets) + 1
         /\ wsUrl' = BuildUrl(apiConfig.wsURL, getAuthToken)
         /\ fired' = <<>>
         /\ errorsEmitted' = errorsEmitted
    ELSE /\ fired' = <<Call("onError", "Failed to establish WebSocket connection")>>
         /\ errorsEmitted' = errorsEmitted + 1
         /\ UNCHANGED <<sockets, sent, ws, wsUrl>>

\* body of reconnect()
reconnect ==
    IF CanReconnect(reconnectAttempts)
    THEN /\ reconnectAttempts' = reconnectAttempts + 1
         /\ timers' = Append(timers, BackoffDelay(reconnectAttempts + 1))
         /\ schedLog' = Append(schedLog, BackoffDelay(reconnectAttempts + 1))
    ELSE UNCHANGED <<reconnectAttempts, timers, schedLog>>

\* the caller calls connect()
CallerConnect(urlValid, cap) ==
    /\ callerConnects < MaxCallerConnects
    /\ Len(sockets) < cap
    /\ connect(urlValid)
    /\ callerConnects' = callerConnects + 1
    /\ disconnected' = FALSE
    /\ last' = "connect"
    /\ UNCHANGED <<reconnectAttempts, timers, buses, stops, aborted, inbound,
                   schedLog, mapVars, envVars>>

\* a reconnection timer fires and its callback calls connect()
TimerFire(i, urlValid, cap) ==
    /\ CanFire(i)
    /\ Len(sockets) < cap
    /\ connect(urlValid)
    /\ timers' = RemoveAt(timers, i)
    /\ last' = "timer"
    /\ UNCHANGED <<reconnectAttempts, buses, stops, aborted, inbound, disconnected,
                   callerConnects, schedLog, mapVars, envVars>>

\* disconnect() that closes the socket but keeps the reference to it
disconnectKeepingRef ==
    IF ws # 0
    THEN /\ sockets' = [sockets EXCEPT ![ws] =
                           IF @ \in {"CONNECTING", "OPEN"} THEN "CLOSING" ELSE @]
         /\ aborted' = IF sockets[ws] = "CONNECTING"
                       THEN aborted \cup {ws} ELSE aborted
         /\ ws' = ws
    ELSE UNCHANGED <<sockets, aborted, ws>>

\* body of disconnect()
disconnect ==
    IF ws # 0
    THEN /\ sockets' = [sockets EXCEPT ![ws] =
                           IF @ \in {"CONNECTING", "OPEN"} THEN "CLOSING" ELSE @]
         /\ aborted' = IF sockets[ws] = "CONNECTING"
                       THEN aborted \cup {ws} ELSE aborted
         /\ ws' = 0
    ELSE UNCHANGED <<sockets, aborted, ws>>

\* the caller calls disconnect()
Disconnect ==
    /\ disconnect
    /\ disconnected' = TRUE
    /\ fired' = <<>>
    /\ last' = "disconnect"
    /\ UNCHANGED <<wsUrl, reconnectAttempts, sent, timers, buses, stops, errorsEmitted,
                   inbound, callerConnects, schedLog, mapVars, envVars>>

\* an onopen handler that leaves the attempt counter alone
SocketOpenKeepingCount(s) ==
    /\ s \in 1..Len(sockets)
    /\ sockets[s] = "CONNECTING"
    /\ sockets' = [sockets EXCEPT ![s] = "OPEN"]
    /\ errorsEmitted' = 0
    /\ sent' = send(ws, sockets', sent)
    /\ schedLog' = <<>>
    /\ fired' = <<>>
    /\ last' = "open"
    /\ UNCHANGED <<wsUrl, ws, reconnectAttempts, timers, buses, stops, aborted, inbound,
                   disconnected, callerConnects, mapVars, envVars>>

\* socket s completes its handshake: the onopen handler runs
SocketOpen(s) ==
    /\ s \in 1..Len(sockets)
    /\ sockets[s] = "CONNECTING"
    /\ sockets' = [sockets EXCEPT ![s] = "OPEN"]
    /\ reconnectAttempts' = 0
    /\ errorsEmitted' = 0
    /\ sent' = send(ws, sockets', sent)
    /\ schedLog' = <<>>
    /\ fired' = <<>>
    /\ last' = "open"
    /\ UNCHANGED <<wsUrl, ws, timers, buses, stops, aborted, inbound,
                   disconnected, callerConnects, mapVars, envVars>>

\* an open socket delivers a text frame: the onmessage handler runs
SocketMessage(s, p) ==
    /\ s \in 1..Len(sockets)
    /\ sockets[s] = "OPEN"
    /\ fired' = OnMessage(p)
    /\ buses' = IF \E i \in 1..Len(fired') : fired'[i].cb = "onBusUpdate"
                THEN p.data ELSE buses
    /\ stops' = IF \E i \in 1..Len(fired') : fired'[i].cb = "onStopUpdate"
                THEN p.data ELSE stops
    /\ last' = "message"
    /\ inbound' = p
    /\ UNCHANGED <<wsUrl, ws, reconnectAttempts, sockets, sent, timers, aborted,
                   errorsEmitted, disconnected, callerConnects, schedLog, mapVars, envVars>>

\* a closed socket has no connection left: only its readyState is kept
Discard(s) ==
    /\ sent' = [sent EXCEPT ![s] = 0]
    /\ aborted' = aborted \ {s}

\* socket s closes cleanly (closing handshake done): the onclose handler runs;
\* a socket closed before it opened never closes cleanly
SocketClose(s) ==
    /\ s \in 1..Len(sockets)
    /\ sockets[s] \in {"OPEN", "CLOSING"}
    /\ s \notin aborted
    /\ sockets' = [sockets EXCEPT ![s] = "CLOSED"]
    /\ reconnect
    /\ Discard(s)
    /\ fired' = <<>>
    /\ last' = "close"
    /\ UNCHANGED <<wsUrl, ws, buses, stops, errorsEmitted, inbound, disconnected,
                   callerConnects, mapVars, envVars>>

\* the connection of socket s fails: the onerror handler runs, then onclose
SocketFail(s) ==
    /\ s \in 1..Len(sockets)
    /\ sockets[s] \in {"CONNECTING", "OPEN", "CLOSING"}
    /\ sockets' = [sockets EXCEPT ![s] = "CLOSED"]
    /\ reconnect
    /\ fired' = <<Call("onError", "Connection error occurred")>>
    /\ errorsEmitted' = errorsEmitted + 1
    /\ Discard(s)
    /\ last' = "fail"
    /\ UNCHANGED <<wsUrl, ws, buses, stops, inbound, disconnected, callerConnects,
                   mapVars, envVars>>

\* the transport under its caller and the browser, no frames delivered
Next ==
    \/ \E v \in BOOLEAN : CallerConnect(v, MaxSockets)
    \/ \E i \in 1..MaxSockets, v \in BOOLEAN : TimerFire(i, v, MaxSockets)
    \/ Disconnect
    \/ \E s \in 1..MaxSockets : SocketOpen(s)
    \/ \E s \in 1..MaxSockets : SocketClose(s)
    \/ \E s \in 1..MaxSockets : SocketFail(s)

Spec == Init /\ [][Next]_vars

\* the same transport with a server that delivers frames on open sockets
NextLive ==
    \/ \E v \in BOOLEAN : CallerConnect(v, MaxLiveSockets)
    \/ \E i \in 1..MaxLiveSockets, v \in BOOLEAN : TimerFire(i, v, MaxLiveSockets)
    \/ Disconnect
    \/ \E s \in 1..MaxLiveSockets : SocketOpen(s)
    \/ \E s \in 1..MaxLiveSockets, p \in Payloads : SocketMessage(s, p)
    \/ \E s \in 1..MaxLiveSockets : SocketClose(s)
    \/ \E s \in 1..MaxLiveSockets : SocketFail(s)

SpecLive == Init /\ [][NextLive]_vars

TypeOK ==
    /\ ws \in 0..Len(sockets)
    /\ reconnectAttempts \in Nat
    /\ \A s \in 1..Len(sockets) : sockets[s] \in ReadyStates
    /\ Len(sent) = Len(sockets)
    /\ buses \in FleetBatches
    /\ stops \in StopBatches
    /\ aborted \subseteq 1..Len(sockets)
    /\ inbound \in Payloads \cup {NoFrame}

\* ------------------------------------------------------ the Map's actions

\* an effect that also calls ws.connect() on the new instance
NewTransportConnected ==
    /\ ws' = 1
    /\ reconnectAttempts' = 0
    /\ sockets' = <<"CONNECTING">>
    /\ sent' = <<0>>
    /\ timers' = <<>>
    /\ aborted' = {}
    /\ fired' = <<>>
    /\ errorsEmitted' = 0
    /\ last' = "connect"
    /\ inbound' = NoFrame
    /\ disconnected' = FALSE
    /\ callerConnects' = 1
    /\ schedLog' = <<>>
    /\ wsUrl' = BuildUrl(apiConfig.wsURL, getAuthToken)

\* a new BusTrackingWebSocket(...) replaces the instance of the previous effect
NewTransport ==
    /\ ws' = 0
    /\ reconnectAttempts' = 0
    /\ sockets' = <<>>
    /\ sent' = <<>>
    /\ timers' = <<>>
    /\ aborted' = {}
    /\ fired' = <<>>
    /\ errorsEmitted' = 0
    /\ last' = "init"
    /\ inbound' = NoFrame
    /\ disconnected' = FALSE
    /\ callerConnects' = 0
    /\ schedLog' = <<>>
    /\ wsUrl' = NoUrl

\* an effect without cleanup: the interval of the previous run stays
rerunEffectLeaking(center) ==
    /\ mapCenter' = center
    /\ intervals' = Append(intervals, NewInterval(center))
    /\ NewTransport

\* setMapCenter(center) re-runs the transport and polling effect: the cleanup
\* of the previous run (clearInterval, ws.disconnect()), then a new transport
\* instance and a new interval whose closure holds the new center
rerunEffect(center) ==
    /\ mapCenter' = center
    /\ intervals' = Append(clearInterval(intervals), NewInterval(center))
    /\ NewTransport

\* the promise of loadInitialData resolves with both collections
InitialLoadOk(b, st) ==
    /\ initialPending
    /\ initialPending' = FALSE
    /\ IF mounted
       THEN /\ buses' = mergeVehicles(buses, b)
            /\ stops' = st
            /\ lastBatch' = b
            /\ dataLoading' = FALSE
       ELSE UNCHANGED <<buses, stops, lastBatch, dataLoading>>
    /\ toasts' = <<>>
    /\ geoError' = NoCode
    /\ mapLast' = "initial_ok"
    /\ UNCHANGED envVars
    /\ UNCHANGED <<tvars, mounted, mapCenter, zoomLevel, mapDimensions, userLocation,
                   locationLoading, geoPending, intervals, inflight, trail>>

\* one of the two requests of loadInitialData is rejected
InitialLoadFail ==
    /\ initialPending
    /\ initialPending' = FALSE
    /\ dataLoading' = IF mounted THEN FALSE ELSE dataLoading
    /\ toasts' = <<"Failed to load map data">>
    /\ geoError' = NoCode
    /\ mapLast' = "initial_fail"
    /\ UNCHANGED envVars
    /\ UNCHANGED <<tvars, buses, stops, mounted, mapCenter, zoomLevel, mapDimensions,
                   userLocation, locationLoading, geoPending, intervals, inflight,
                   lastBatch, trail>>

\* interval i fires: its callback calls getLiveBuses with the bounds around
\* the center it captured
PollTick(i) ==
    /\ i \in 1..Len(intervals)
    /\ Len(inflight) < MaxInflight
    /\ inflight' = Append(inflight, PollBounds(intervals[i].center))
    /\ toasts' = <<>>
    /\ geoError' = NoCode
    /\ mapLast' = "tick"
    /\ UNCHANGED envVars
    /\ UNCHANGED <<tvars, buses, stops, mounted, mapCenter, zoomLevel, mapDimensions,
                   userLocation, locationLoading, dataLoading, geoPending,
                   initialPending, intervals, lastBatch, trail>>

\* the getLiveBuses call j of a poll tick resolves with batch b: setBuses(b)
PollOk(j, b) ==
    /\ j \in 1..Len(inflight)
    /\ inflight' = RemoveAt(inflight, j)
    /\ IF mounted
       THEN /\ buses' = mergeVehicles(buses, b)
            /\ lastBatch' = b
       ELSE UNCHANGED <<buses, lastBatch>>
    /\ toasts' = <<>>
    /\ geoError' = NoCode
    /\ mapLast' = "poll_ok"
    /\ UNCHANGED envVars
    /\ UNCHANGED <<tvars, stops, mounted, mapCenter, zoomLevel, mapDimensions,
                   userLocation, locationLoading, dataLoading, geoPending,
                   initialPending, intervals, trail>>

\* a rejection handler that gives up polling and reports to the user
PollFailStopping(j) ==
    /\ j \in 1..Len(inflight)
    /\ inflight' = RemoveAt(inflight, j)
    /\ intervals' = clearInterval(intervals)
    /\ toasts' = <<"Failed to update bus locations">>
    /\ geoError' = NoCode
    /\ mapLast' = "poll_fail"
    /\ UNCHANGED envVars
    /\ UNCHANGED <<tvars, buses, stops, mounted, mapCenter, zoomLevel, mapDimensions,
                   userLocation, locationLoading, dataLoading, geoPending,
                   initialPending, lastBatch, trail>>

\* the getLiveBuses call j of a poll tick is rejected: the catch logs it
PollFail(j) ==
    /\ j \in 1..Len(inflight)
    /\ inflight' = RemoveAt(inflight, j)
    /\ toasts' = <<>>
    /\ geoError' = NoCode
    /\ mapLast' = "poll_fail"
    /\ UNCHANGED envVars
    /\ UNCHANGED <<tvars, buses, stops, mounted, mapCenter, zoomLevel, mapDimensions,
                   userLocation, locationLoading, dataLoading, geoPending,
                   initialPending, intervals, lastBatch, trail>>

\* getCurrentLocation, from the button that is disabled while locating
Locate ==
    /\ mounted
    /\ ~locationLoading
    /\ locationLoading' = TRUE
    /\ geoPending' = TRUE
    /\ toasts' = <<>>
    /\ geoError' = NoCode
    /\ mapLast' = "locate"
    /\ UNCHANGED envVars
    /\ UNCHANGED <<tvars, buses, stops, mounted, mapCenter, zoomLevel, mapDimensions,
                   userLocation, dataLoading, initialPending, intervals, inflight,
                   lastBatch, trail>>

\* success callback of getCurrentPosition
GeoSuccess(loc) ==
    /\ geoPending
    /\ geoPending' = FALSE
    /\ IF mounted
       THEN /\ userLocation' = loc
            /\ locationLoading' = FALSE
            /\ rerunEffect(loc)
       ELSE UNCHANGED <<userLocation, locationLoading, mapCenter, intervals, tvars>>
    /\ toasts' = <<"Location found successfully">>
    /\ geoError' = NoCode
    /\ mapLast' = "geo_ok"
    /\ UNCHANGED envVars
    /\ UNCHANGED <<buses, stops, mounted, zoomLevel, mapDimensions, dataLoading,
                   initialPending, inflight, lastBatch, trail>>

\* error callback of getCurrentPosition
GeoFail(code) ==
    /\ geoPending
    /\ geoPending' = FALSE
    /\ geoError' = code
    /\ IF mounted
       THEN /\ locationLoading' = FALSE
            /\ rerunEffect(DefaultCenter)
       ELSE UNCHANGED <<locationLoading, mapCenter, intervals, tvars>>
    /\ toasts' = <<GeoErrorMessage(code), "Using default location: New York City">>
    /\ mapLast' = "geo_fail"
    /\ UNCHANGED envVars
    /\ UNCHANGED <<buses, stops, mounted, zoomLevel, mapDimensions, userLocation,
                   dataLoading, initialPending, inflight, lastBatch, trail>>

\* handleZoomIn, without the round-trip bookkeeping
handleZoomIn ==
    /\ mounted
    /\ zoomLevel' = ZoomIn(zoomLevel)
    /\ toasts' = <<>>
    /\ geoError' = NoCode
    /\ mapLast' = "zoom_in"
    /\ UNCHANGED envVars
    /\ UNCHANGED <<tvars, buses, stops, mounted, mapCenter, mapDimensions,
                   userLocation, locationLoading, dataLoading, geoPending,
                   initialPending, intervals, inflight, lastBatch>>

\* handleZoomOut, without the round-trip bookkeeping
handleZoomOut ==
    /\ mounted
    /\ zoomLevel' = ZoomOut(zoomLevel)
    /\ toasts' = <<>>
    /\ geoError' = NoCode
    /\ mapLast' = "zoom_out"
    /\ UNCHANGED envVars
    /\ UNCHANGED <<tvars, buses, stops, mounted, mapCenter, mapDimensions,
                   userLocation, locationLoading, dataLoading, geoPending,
                   initialPending, intervals, inflight, lastBatch>>

\* a press of the zoom-in button
HandleZoomIn ==
    /\ trail.phase = "roam"
    /\ handleZoomIn
    /\ UNCHANGED trail

\* a press of the zoom-out button
HandleZoomOut ==
    /\ trail.phase = "roam"
    /\ handleZoomOut
    /\ UNCHANGED trail

\* the resize listener re-measures the map element
Resize(d) ==
    /\ mounted
    /\ mapDimensions' = d
    /\ toasts' = <<>>
    /\ geoError' = NoCode
    /\ mapLast' = "resize"
    /\ UNCHANGED envVars
    /\ UNCHANGED <<tvars, buses, stops, mounted, mapCenter, zoomLevel, userLocation,
                   locationLoading, dataLoading, geoPending, initialPending,
                   intervals, inflight, lastBatch, trail>>

\* the view is removed: the effect cleanups run
Unmount ==
    /\ mounted
    /\ mounted' = FALSE
    /\ intervals' = clearInterval(intervals)
    /\ disconnect
    /\ disconnected' = TRUE
    /\ fired' = <<>>
    /\ last' = "disconnect"
    /\ toasts' = <<>>
    /\ geoError' = NoCode
    /\ mapLast' = "unmount"
    /\ UNCHANGED envVars
    /\ UNCHANGED <<wsUrl, reconnectAttempts, sent, timers, errorsEmitted, inbound,
                   callerConnects, schedLog, buses, stops, mapCenter, zoomLevel,
                   mapDimensions, userLocation, locationLoading, dataLoading,
                   geoPending, initialPending, inflight, lastBatch,
                   trail>>

\* the Map's data and lifecycle: loading, polling, geolocation, teardown
NextMap ==
    \/ \E b \in FleetBatches, st \in StopBatches : InitialLoadOk(b, st)
    \/ InitialLoadFail
    \/ \E i \in 1..MaxInflight : PollTick(i)
    \/ \E j \in 1..MaxInflight, b \in FleetBatches : PollOk(j, b)
    \/ \E j \in 1..MaxInflight : PollFail(j)
    \/ Locate
    \/ \E loc \in Locations : GeoSuccess(loc)
    \/ \E code \in GeoCodes : GeoFail(code)
    \/ Unmount

SpecMap == Init /\ [][NextMap]_vars

\* the Map's viewport: what is loaded, where the center is, zoom and size
NextView ==
    \/ \E b \in FleetBatches, st \in StopBatches : InitialLoadOk(b, st)
    \/ Locate
    \/ \E loc \in Locations : GeoSuccess(loc)
    \/ \E code \in GeoCodes : GeoFail(code)
    \/ HandleZoomIn
    \/ HandleZoomOut
    \/ \E d \in Dimensions : Resize(d)

SpecView == Init /\ [][NextView]_vars

\* a round-trip run: from any zoom level, some zoom-in presses followed by
\* zoom-out presses
StartRun ==
    /\ trail.phase = "roam"
    /\ mounted
    /\ trail' = [phase |-> "in", start |-> zoomLevel, ins |-> 0, outs |-> 0]
    /\ UNCHANGED <<tvars, buses, stops, mounted, mapCenter, zoomLevel, mapDimensions,
                   userLocation, locationLoading, dataLoading, geoPending,
                   initialPending, intervals, inflight, toasts, mapLast, geoError,
                   lastBatch, envVars>>

RunZoomIn ==
    /\ trail.phase = "in"
    /\ trail.ins < MaxZoomSteps
    /\ handleZoomIn
    /\ trail' = [trail EXCEPT !.ins = @ + 1]

RunZoomOut ==
    /\ trail.phase \in {"in", "out"}
    /\ trail.outs < trail.ins
    /\ handleZoomOut
    /\ trail' = [trail EXCEPT !.phase = "out", !.outs = @ + 1]

NextZoom ==
    \/ HandleZoomIn
    \/ HandleZoomOut
    \/ StartRun
    \/ RunZoomIn
    \/ RunZoomOut

SpecZoom == Init /\ [][NextZoom]_vars

\* ------------------------------------------ credential, requests, config

\* the sign-in or sign-up form stores the token it obtained
StoreToken(t) ==
    /\ token' = <<t>>
    /\ UNCHANGED <<tvars, buses, stops, mapVars, apiConfig, defaultConfig, aliased,
                   windowConfig, storedConfig, cfgLast, requests>>

\* logout, or an expired session: the token is removed
RemoveToken ==
    /\ token' = <<>>
    /\ UNCHANGED <<tvars, buses, stops, mapVars, apiConfig, defaultConfig, aliased,
                   windowConfig, storedConfig, cfgLast, requests>>

\* the transport with a user who signs in and out between connections
NextAuth ==
    \/ \E t \in Tokens : StoreToken(t)
    \/ RemoveToken
    \/ \E v \in BOOLEAN : CallerConnect(v, MaxLiveSockets)
    \/ \E i \in 1..MaxLiveSockets, v \in BOOLEAN : TimerFire(i, v, MaxLiveSockets)
    \/ Disconnect
    \/ \E s \in 1..MaxLiveSockets : SocketOpen(s)
    \/ \E s \in 1..MaxLiveSockets : SocketClose(s)
    \/ \E s \in 1..MaxLiveSockets : SocketFail(s)

SpecAuth == Init /\ [][NextAuth]_vars

\* the Map of a freshly loaded page, as in MapInit
NewMap ==
    /\ mounted' = TRUE
    /\ mapCenter' = DefaultCenter
    /\ zoomLevel' = InitialZoom
    /\ mapDimensions' = [width |-> 800, height |-> 600]
    /\ userLocation' = NoLocation
    /\ locationLoading' = FALSE
    /\ dataLoading' = TRUE
    /\ geoPending' = FALSE
    /\ initialPending' = TRUE
    /\ intervals' = <<NewInterval(DefaultCenter)>>
    /\ inflight' = <<>>
    /\ toasts' = <<>>
    /\ mapLast' = "mount"
    /\ geoError' = NoCode
    /\ lastBatch' = <<>>
    /\ trail' = NoTrail

\* body of updateAPIConfig(newConfig); saved is FALSE when setItem throws
updateAPIConfig(newConfig, saved) ==
    /\ apiConfig' = Spread(apiConfig, newConfig)
    /\ defaultConfig' = IF aliased THEN Spread(apiConfig, newConfig) ELSE defaultConfig
    /\ storedConfig' = IF saved
                       THEN <<JSONStringify(Spread(defaultConfig', newConfig))>>
                       ELSE storedConfig
    /\ cfgLast' = IF saved THEN "update" ELSE "update_unsaved"

\* a debug helper calls updateAPIConfig
UpdateConfig(newConfig, saved) ==
    /\ updateAPIConfig(newConfig, saved)
    /\ UNCHANGED <<tvars, buses, stops, mapVars, token, aliased, windowConfig, requests>>

\* the page is loaded again, served with window override win: the modules are
\* evaluated afresh, localStorage is what it was
Reload(win) ==
    /\ windowConfig' = win
    /\ defaultConfig' = DEFAULT_CONFIG
    /\ apiConfig' = getConfig(win, storedConfig)
    /\ aliased' = getConfigAliased(win, storedConfig)
    /\ cfgLast' = "load"
    /\ requests' = <<>>
    /\ NewTransport
    /\ buses' = <<>>
    /\ stops' = <<>>
    /\ NewMap
    /\ UNCHANGED <<token, storedConfig>>

\* the configuration module under the debug helpers and page reloads
NextConfig ==
    \/ \E c \in ConfigUpdates, saved \in BOOLEAN : UpdateConfig(c, saved)
    \/ \E win \in WindowConfigs : Reload(win)

SpecConfig == Init /\ [][NextConfig]_vars

\* phases of a request in which its promise is not settled
PendingPhases == {"mock", "fetching", "reading"}

\* requests' with request r moved to phase p
Settle(r, p) == requests' = [requests EXCEPT ![r] = p]

\* what no step of a request changes
RequestFrame ==
    UNCHANGED <<tvars, buses, stops, mapVars, token, apiConfig, defaultConfig,
                aliased, windowConfig, storedConfig, cfgLast>>

\* busAPI.getLiveBuses or stopsAPI.getAllStops is called: in mock mode it
\* waits on a 500 ms timer, otherwise makeAuthenticatedRequest starts a fetch
\* and arms the abort timer
StartRequest ==
    /\ Len(requests) < MaxPending
    /\ requests' = Append(requests, IF apiConfig.enableMockMode THEN "mock" ELSE "fetching")
    /\ RequestFrame

\* the 500 ms timer of the mock implementation fires: the mock data is returned
MockResolve(r) ==
    /\ r \in 1..Len(requests)
    /\ requests[r] = "mock"
    /\ Settle(r, "resolved")
    /\ RequestFrame

\* the response headers arrive: clearTimeout, then a non-2xx status throws
\* and a 2xx response goes on to response.json()
ResponseHeaders(r, ok) ==
    /\ r \in 1..Len(requests)
    /\ requests[r] = "fetching"
    /\ Settle(r, IF ok THEN "reading" ELSE "rejected")
    /\ RequestFrame

\* the network fails while the request or its body is under way
NetworkError(r) ==
    /\ r \in 1..Len(requests)
    /\ requests[r] \in {"fetching", "reading"}
    /\ Settle(r, "rejected")
    /\ RequestFrame

\* the abort timer armed for API_TIMEOUT fires: fetch rejects with AbortError,
\* rethrown as 'Request timeout'
TimeoutFire(r) ==
    /\ r \in 1..Len(requests)
    /\ requests[r] = "fetching"
    /\ Settle(r, "timeout")
    /\ RequestFrame

\* the body has arrived and parsed: response.json() resolves
BodyRead(r) ==
    /\ r \in 1..Len(requests)
    /\ requests[r] = "reading"
    /\ Settle(r, "resolved")
    /\ RequestFrame

\* the transport and the API client against a network that may never answer
NextFair ==
    \/ \E mock \in BOOLEAN : UpdateConfig([enableMockMode |-> mock], TRUE)
    \/ StartRequest
    \/ \E r \in 1..MaxPending : MockResolve(r)
    \/ \E r \in 1..MaxPending, ok \in BOOLEAN : ResponseHeaders(r, ok)
    \/ \E r \in 1..MaxPending : NetworkError(r)
    \/ \E r \in 1..MaxPending : TimeoutFire(r)
    \/ \E r \in 1..MaxPending : BodyRead(r)
    \/ \E v \in BOOLEAN : CallerConnect(v, MaxPending)
    \/ \E i \in 1..MaxPending, v \in BOOLEAN : TimerFire(i, v, MaxPending)
    \/ Disconnect
    \/ \E s \in 1..MaxPending : SocketOpen(s)
    \/ \E s \in 1..MaxPending : SocketClose(s)
    \/ \E s \in 1..MaxPending : SocketFail(s)

\* the timers the code arms do fire; nothing obliges the network to answer
SpecFair ==
    /\ Init
    /\ [][NextFair]_vars
    /\ WF_vars(\E r \in 1..MaxPending : TimeoutFire(r))
    /\ WF_vars(\E r \in 1..MaxPending : MockResolve(r))
    /\ WF_vars(\E i \in 1..MaxPending, v \in BOOLEAN : TimerFire(i, v, MaxPending))

\* ------------------------------------------------------------ properties

Closing == {"close", "fail"}
Invoked(f, cb) == \E i \in 1..Len(f) : f[i].cb = cb
AllClosed == \A s \in 1..Len(sockets) : sockets[s] = "CLOSED"

\* C1: after disconnect(), and until the caller itself calls connect(), no
\* reconnection is scheduled and connect() does not run: no timer is added
\* and no socket is created.
CeC1 ==
    [][(disconnected /\ disconnected') =>
          (Len(sockets') = Len(sockets) /\ Len(timers') <= Len(timers))]_vars

\* C2: a reconnection timer that is pending when disconnect() is called is
\* cancelled by it: it does not fire afterwards.
CeC2 ==
    [][(last = "disconnect" /\ timers # <<>>) => last' # "timer"]_vars

\* C3: when a socket closes with the attempt counter already at the maximum,
\* onError is invoked by that handler, and it is the only connectivity error
\* the transport has emitted in the run of failures.
CeC3 ==
    [][(last' \in Closing /\ reconnectAttempts = maxReconnectAttempts) =>
          (Invoked(fired', "onError") /\ errorsEmitted' = 1)]_vars

\* C4: a socket that closes with the counter at the maximum schedules no
\* reconnection, and once the counter is at the maximum with no timer pending
\* and no socket alive, only a connect() by the caller creates a socket.
Exhausted ==
    /\ reconnectAttempts = maxReconnectAttempts
    /\ timers = <<>>
    /\ \A s \in 1..Len(sockets) : sockets[s] \in {"CLOSING", "CLOSED"}

ThmC4 ==
    [][/\ (last' \in Closing /\ reconnectAttempts = maxReconnectAttempts) =>
             (timers' = timers /\ reconnectAttempts' = reconnectAttempts)
       /\ (Exhausted /\ last' # "connect") =>
             (Exhausted' /\ Len(sockets') = Len(sockets))]_vars

\* five sockets created by timers closed without opening, then nothing is left
WitC4 ==
    /\ Exhausted
    /\ AllClosed
    /\ callerConnects = 1
    /\ Len(sockets) = maxReconnectAttempts + 1
    /\ \A s \in 1..Len(sockets) : sent[s] = 0

ThmC6 ==
    reconnectAttempts \in 0..maxReconnectAttempts

\* a socket closed while the counter was already at the maximum
WitC6 ==
    /\ reconnectAttempts = maxReconnectAttempts
    /\ last \in Closing
    /\ timers = <<>>
    /\ Len(sockets) > maxReconnectAttempts
    /\ AllClosed

\* C7: every socket that is open has had the counter reset and exactly one
\* subscription frame sent on it.
CeC7 ==
    \A s \in 1..Len(sockets) : sockets[s] = "OPEN" => sent[s] = 1

\* C8: a delivered frame invokes exactly the callback of its type (and the
\* Map callback stores its batch); a frame of any other type invokes none;
\* no frame changes the transport's state or closes a socket.
ThmC8 ==
    [][last' = "message" =>
          /\ inbound'.json = "obj" =>
                fired' = (CASE inbound'.type = "bus_update" -> <<Call("onBusUpdate", "")>>
                            [] inbound'.type = "stop_update" -> <<Call("onStopUpdate", "")>>
                            [] inbound'.type = "error" -> <<Call("onError", inbound'.message)>>
                            [] OTHER -> <<>>)
          /\ buses' = IF inbound'.json = "obj" /\ inbound'.type = "bus_update"
                      THEN inbound'.data ELSE buses
          /\ stops' = IF inbound'.json = "obj" /\ inbound'.type = "stop_update"
                      THEN inbound'.data ELSE stops
          /\ UNCHANGED <<ws, reconnectAttempts, sockets, sent, timers>>]_vars

\* a frame of unknown type arrived after a vehicle batch and left it in place
WitC8 ==
    /\ last = "message"
    /\ inbound.json = "obj"
    /\ inbound.type = "ping"
    /\ fired = <<>>
    /\ buses = <<MaxVehicleId, 1>>
    /\ ws # 0
    /\ sockets[ws] = "OPEN"

\* C9: a frame whose text does not parse to an object invokes no callback and
\* leaves the collections, the sockets and the attempt counter as they were.
ThmC9 ==
    [][(last' = "message" /\ inbound'.json # "obj") =>
          /\ fired' = <<>>
          /\ UNCHANGED <<buses, stops, sockets, ws, reconnectAttempts, timers, sent>>]_vars

\* unparseable text arrived on the open socket after both collections were set
WitC9 ==
    /\ last = "message"
    /\ inbound.json = "bad"
    /\ buses # <<>>
    /\ stops # <<>>
    /\ ws # 0
    /\ sockets[ws] = "OPEN"

\* C10: the send made by onopen while this.ws is null or not OPEN transmits
\* nothing on any socket and raises no error.
ThmC10 ==
    [][(last' = "open" /\ (ws = 0 \/ sockets'[ws] # "OPEN")) =>
          (sent' = sent /\ fired' = <<>>)]_vars

\* a socket opened while this.ws referred to another, still connecting, socket
WitC10 ==
    /\ last = "open"
    /\ ws # 0
    /\ sockets[ws] = "CONNECTING"
    /\ \A s \in 1..Len(sockets) : sent[s] = 0

\* C11: disconnect() always leaves this.ws null and invokes no callback, and
\* called when this.ws is already null (never connected, or disconnected
\* before) it changes nothing of the transport; so a second call in a row
\* leaves the state of the first.
ThmC11 ==
    [][last' = "disconnect" =>
          /\ ws' = 0
          /\ fired' = <<>>
          /\ ws = 0 => UNCHANGED <<ws, reconnectAttempts, sockets, sent, timers,
                                   aborted, errorsEmitted, schedLog>>]_vars

\* disconnect() was called on a transport that never created a socket
WitC11 ==
    /\ last = "disconnect"
    /\ Len(sockets) = 0
    /\ ws = 0
    /\ disconnected
    /\ fired = <<>>

\* C12: the vehicle batch of the initial load or of a poll replaces the whole
\* collection: after the step the collection is exactly the batch received,
\* whatever it held before
ThmC12 ==
    [][(mounted /\ mapLast' \in {"initial_ok", "poll_ok"}) => buses' = lastBatch']_vars

WitC12 == mounted /\ mapLast = "poll_ok" /\ ~dataLoading /\ buses = <<1>>

\* C13: a poll tick whose request fails leaves the vehicle and stop
\* collections as they were, shows nothing to the user, and leaves the
\* polling interval in place
ThmC13 ==
    [][mapLast' = "poll_fail" =>
          /\ UNCHANGED <<buses, stops, intervals>>
          /\ toasts' = <<>>]_vars

WitC13 ==
    /\ mapLast = "poll_fail"
    /\ mounted
    /\ buses = <<1, 2, 3>>
    /\ Len(intervals) = 1
    /\ Len(inflight) = 1

\* C14: while the Map is mounted there is one polling interval, of period
\* 10 s, whatever the transport does; each of its ticks issues exactly one
\* vehicle fetch, and the bounds of that fetch are the current center plus and
\* minus 0.05 degrees in latitude and longitude
ThmC14 ==
    [][/\ mounted' => (Len(intervals') = 1 /\ intervals'[1].every = 10000)
       /\ mapLast' = "tick" =>
             /\ mounted
             /\ inflight' = Append(inflight, [north |-> mapCenter.lat + 500,
                                              south |-> mapCenter.lat - 500,
                                              east |-> mapCenter.lng + 500,
                                              west |-> mapCenter.lng - 500])
             /\ UNCHANGED <<buses, stops, mapCenter, intervals, tvars>>]_vars

WitC14 ==
    /\ mapLast = "tick"
    /\ mounted
    /\ mapCenter = [lat |-> 407580, lng |-> -739855]
    /\ Len(inflight) = 2
    /\ inflight[2] = [north |-> 408080, south |-> 407080, east |-> -739355, west |-> -740355]

ThmC16 ==
    /\ zoomLevel = 13
    /\ [][/\ zoomLevel' \in 8..18
          /\ mapLast' = "zoom_in" =>
                zoomLevel' = (IF zoomLevel = 18 THEN 18 ELSE zoomLevel + 1)
          /\ mapLast' = "zoom_out" =>
                zoomLevel' = (IF zoomLevel = 8 THEN 8 ELSE zoomLevel - 1)
          /\ mapLast' \notin {"zoom_in", "zoom_out"} => zoomLevel' = zoomLevel]_vars

WitC16 == zoomLevel = 18 /\ mapLast = "zoom_in" /\ mapCenter # DefaultCenter

\* a round-trip run is complete: as many zoom-outs as zoom-ins were pressed
RunComplete == trail.phase # "roam" /\ trail.outs = trail.ins

\* the scale factor 2^(zoomLevel - 10) is the one of the start of the run
SameScale ==
    /\ ZoomNum(zoomLevel) * ZoomDen(trail.start) = ZoomNum(trail.start) * ZoomDen(zoomLevel)
    /\ zoomLevel = trail.start

ThmC18 ==
    [][mapLast' = "geo_fail" =>
          /\ geoError' \in GeoCodes
          /\ Len(toasts') = 2
          /\ geoError' = 1 => toasts'[1] = "Location access denied by user"
          /\ geoError' = 2 => toasts'[1] = "Location information unavailable"
          /\ geoError' = 3 => toasts'[1] = "Location request timed out"
          /\ geoError' \notin {1, 2, 3} =>
                toasts'[1] = "An unknown error occurred while retrieving location"
          /\ toasts'[2] = "Using default location: New York City"
          /\ mounted =>
                /\ mapCenter' = [lat |-> 407128, lng |-> -740060]
                /\ ~locationLoading'
                /\ locationLoading
          /\ UNCHANGED <<userLocation, buses, stops>>]_vars

WitC18 ==
    /\ mapLast = "geo_fail"
    /\ geoError = 3
    /\ mounted
    /\ userLocation = [lat |-> 407580, lng |-> -739855]
    /\ mapCenter = DefaultCenter
    /\ ~locationLoading
    /\ toasts[1] = "Location request timed out"

Abs(a) == IF a < 0 THEN -a ELSE a

\* the fraction r is within one pixel of half the extent
NearHalf(r, extent) == Abs(2 * r.n - extent * r.d) <= 2 * r.d

\* C19 as stated: at the reference zoom (10) the point equal to the viewport
\* center is projected to the middle of the surface, (width/2, height/2),
\* within a rounding tolerance of one pixel
CeC19 ==
    zoomLevel = ReferenceZoom =>
        LET pos == getMarkerPosition(mapCenter.lat, mapCenter.lng)
        IN  /\ NearHalf(pos.x, mapDimensions.width)
            /\ NearHalf(pos.y, mapDimensions.height)

\* the markers the current render draws, each with its projected position:
\* bus, stop and fixed markers pass the surface test, the user-location
\* marker is drawn whenever userLocation is set
RenderedMarkers ==
    {[kind |-> "bus", pos |-> getMarkerPosition(VehiclePos(buses[k]).lat, VehiclePos(buses[k]).lng)] :
        k \in {j \in 1..Len(buses) :
                 ~OffSurface(getMarkerPosition(VehiclePos(buses[j]).lat, VehiclePos(buses[j]).lng),
                             mapDimensions)}}
    \cup
    {[kind |-> "stop", pos |-> getMarkerPosition(StopPos(stops[k]).lat, StopPos(stops[k]).lng)] :
        k \in {j \in 1..Len(stops) :
                 ~OffSurface(getMarkerPosition(StopPos(stops[j]).lat, StopPos(stops[j]).lng),
                             mapDimensions)}}
    \cup
    (IF userLocation # NoLocation
     THEN {[kind |-> "user", pos |-> getMarkerPosition(userLocation.lat, userLocation.lng)]}
     ELSE {})
    \cup
    (IF ~OffSurface(getMarkerPosition(DefaultCenter.lat, DefaultCenter.lng), mapDimensions)
     THEN {[kind |-> "fixed", pos |-> getMarkerPosition(DefaultCenter.lat, DefaultCenter.lng)]}
     ELSE {})

\* C20 as stated: every marker drawn, of any of the four kinds, has
\* 0 <= x <= width and 0 <= y <= height
CeC20 ==
    \A m \in RenderedMarkers :
        /\ 0 <= m.pos.x.n
        /\ m.pos.x.n <= mapDimensions.width * m.pos.x.d
        /\ 0 <= m.pos.y.n
        /\ m.pos.y.n <= mapDimensions.height * m.pos.y.d

\* points inside BOUNDS, corners and edges included, that projections are
\* compared at
SamplePoints ==
    {[lat |-> la, lng |-> ln] : la \in {minLat, 407505, maxLat},
                                ln \in {minLng, -739934, maxLng}}

\* a <= b for two fractions with positive denominators; the projections of
\* one render share their denominator
RatLeq(a, b) == IF a.d = b.d THEN a.n <= b.n ELSE a.n * b.d <= b.n * a.d

\* C21: for the center, zoom level and size of any render, and any two points
\* inside the bounding box, a point further east is never drawn further left
\* and a point further north is never drawn further down
ThmC21 ==
    \A p \in SamplePoints, q \in SamplePoints :
        /\ p.lng <= q.lng =>
              RatLeq(getMarkerPosition(p.lat, p.lng).x, getMarkerPosition(q.lat, q.lng).x)
        /\ p.lat <= q.lat =>
              RatLeq(getMarkerPosition(q.lat, q.lng).y, getMarkerPosition(p.lat, p.lng).y)

WitC21 ==
    /\ zoomLevel = 8
    /\ mapCenter = [lat |-> 415000, lng |-> -739855]
    /\ mapDimensions = [width |-> 400, height |-> 300]
    /\ getMarkerPosition(minLat, minLng).x.n < getMarkerPosition(minLat, maxLng).x.n
    /\ getMarkerPosition(maxLat, minLng).y.n < getMarkerPosition(minLat, minLng).y.n

\* C25: the transport of a mounted Map is constructed and never connected:
\* it has no socket, no reference and no timer, connect() has not been called
\* on it, and the vehicle and stop collections change only in the steps of
\* the initial load and of a poll response, never by a pushed frame
ThmC25 ==
    [][/\ mounted' =>
             /\ sockets' = <<>>
             /\ ws' = 0
             /\ timers' = <<>>
             /\ callerConnects' = 0
             /\ ~disconnected'
             /\ inbound' = NoFrame
       /\ buses' # buses => mapLast' \in {"initial_ok", "poll_ok"}
       /\ stops' # stops => mapLast' = "initial_ok"]_vars

WitC25 ==
    /\ mounted
    /\ mapLast = "poll_ok"
    /\ userLocation # NoLocation
    /\ mapCenter = DefaultCenter
    /\ buses = <<2, 3, 4>>
    /\ stops # <<>>
    /\ last = "init"

\* C26: every open resets the attempt counter to zero, and when an open
\* socket drops with no failure since the last open (counter still zero) a
\* reconnection is scheduled after 1000 ms and the counter becomes 1, far
\* from the limit of 5: a connection that keeps opening and dropping is
\* reconnected every time and never exhausts its attempts
ThmC26 ==
    [][/\ last' = "open" => reconnectAttempts' = 0
       /\ (/\ last' \in {"close", "fail"}
           /\ reconnectAttempts = 0
           /\ \E s \in 1..Len(sockets) : sockets[s] = "OPEN" /\ sockets'[s] = "CLOSED") =>
             /\ reconnectAttempts' = 1
             /\ timers' = Append(timers, 1000)
             /\ reconnectAttempts' < 5]_vars

WitC26 ==
    /\ Len(sockets) = 7
    /\ \A s \in 1..7 : sockets[s] = "CLOSED"
    /\ callerConnects = 1
    /\ ~disconnected
    /\ last = "close"
    /\ reconnectAttempts = 1
    /\ timers = <<1000>>

\* C27 as stated: a poll response whose request was issued by an effect that
\* has since been cleaned up (its bounds are not those of the current center,
\* or the Map is unmounted) does not change the vehicle collection
CeC27 ==
    [][\A j \in 1..Len(inflight) :
          (/\ mapLast' = "poll_ok"
           /\ inflight' = RemoveAt(inflight, j)
           /\ \A k \in 1..Len(inflight) : inflight[k] = inflight[j] => k = j
           /\ (~mounted \/ inflight[j].north # mapCenter.lat + 500)) =>
                buses' = buses]_vars

\* the sockets of the instance that are connecting or open
LiveSockets == {s \in 1..Len(sockets) : sockets[s] \in {"CONNECTING", "OPEN"}}

\* C28 as stated: at most one socket of the instance is connecting or open,
\* and that socket is the one this.ws refers to
CeC28 ==
    /\ Cardinality(LiveSockets) <= 1
    /\ \A s \in LiveSockets : ws = s

\* C29: at most one polling interval exists at any time; a change of center
\* (locate success or failure) in a mounted Map leaves exactly one interval,
\* the one created for the new center, next to a transport without socket or
\* timer; after unmount no interval is left
ThmC29 ==
    [][/\ Len(intervals') <= 1
       /\ ~mounted' => intervals' = <<>>
       /\ (mounted /\ mapLast' \in {"geo_ok", "geo_fail"}) =>
             /\ intervals' = <<[center |-> mapCenter', every |-> 10000]>>
             /\ LiveSockets' = {}
             /\ timers' = <<>>
             /\ ws' = 0]_vars

WitC29 ==
    /\ mounted
    /\ mapLast = "geo_ok"
    /\ mapCenter = [lat |-> 415000, lng |-> -739855]
    /\ intervals = <<[center |-> [lat |-> 415000, lng |-> -739855], every |-> 10000]>>
    /\ Len(inflight) = 2

\* the lines of the info overlay in the current render (the browser of the
\* model has geolocation, so the "Geolocation unavailable" line is absent)
InfoOverlay ==
    {"Zoom", "Center", "Buses | Stops"}
    \cup (IF userLocation # NoLocation THEN {"Your location"} ELSE {})
    \cup (IF dataLoading THEN {"Loading map data..."} ELSE {})

\* something on screen tells the user that tracking is stale or disconnected:
\* a line of the overlay, or a toast raised by the step just taken
StaleIndicated ==
    \/ InfoOverlay \cap {"Stale", "Disconnected"} # {}
    \/ toasts # <<>>

\* C23 as stated: when the last poll has failed, with the live transport of
\* the Map not connected, the stale or disconnected state is visibly
\* indicated
CeC23 == (mounted /\ mapLast = "poll_fail" /\ LiveSockets = {}) => StaleIndicated

\* the query parameters of the URL that carry a credential value
CredentialParams(url) ==
    {i \in 1..Len(url.query) : url.query[i].name = "token"}

\* C22 as stated: a connect() that creates a socket with no token stored
\* builds a URL without any credential value; with a token stored the URL
\* carries exactly that token as its token parameter
CeC22 ==
    [][Len(sockets') > Len(sockets) =>
          /\ token = <<>> => CredentialParams(wsUrl') = {}
          /\ token # <<>> =>
                /\ Len(wsUrl'.query) = 1
                /\ wsUrl'.query[1] = [name |-> "token", value |-> token[1]]]_vars

\* C30 as stated: after an updateAPIConfig call that saved, the persisted
\* configuration equals the in-memory apiConfig, and loading it again with
\* no window override gives exactly that configuration
CeC30 ==
    cfgLast = "update" =>
        /\ storedConfig # <<>>
        /\ JSONParse(storedConfig[1]) = apiConfig
        /\ getConfig(<<>>, storedConfig) = apiConfig

\* socket s exists and its connection attempt is under way
SocketConnecting(s) == s <= Len(sockets) /\ sockets[s] = "CONNECTING"

\* request r exists and its promise is not settled
RequestPending(r) == r <= Len(requests) /\ requests[r] \in PendingPhases

\* request r has ended as a success or as an explicit failure
RequestSettled(r) ==
    r <= Len(requests) /\ requests[r] \in {"resolved", "rejected", "timeout"}

\* C24 as stated: every connection attempt leaves the connecting state, and
\* every vehicle or stop fetch leaves its pending phases, settled as a
\* success or as an explicit failure
CeC24 ==
    /\ \A s \in 1..MaxPending : SocketConnecting(s) ~> ~SocketConnecting(s)
    /\ \A r \in 1..MaxPending : RequestPending(r) ~> RequestSettled(r)

====
